---------------------------- MODULE Spec2Model ----------------------------
(***************************************************************************)
(* Colour-strip analyzer: the /analyze endpoint and analyze_strip_image    *)
(* of ColorAnalyzerApp/backend/main.py as a state machine.                 *)
(*                                                                         *)
(* Fixed-point conventions (the code works on floats):                     *)
(*   - concentrations are held in tenths (0.5 -> 5, 10 -> 100);            *)
(*   - the channel arrays handed to the fit (r_values, g_values, b_values, *)
(*     rgb_mean) are held in thirds of an intensity level, so that         *)
(*     (r + g + b) / 3.0 is exact;                                         *)
(*   - np.median is held doubled, so that the mean of the two middle       *)
(*     values of an even-sized list is exact.                              *)
(*                                                                         *)
(* OpenCV and numpy are libraries outside the repository.  findContours is *)
(* an input: the contour list is drawn contour by contour.  polyfit is an  *)
(* oracle: the coefficients it returns are drawn from a small set, except  *)
(* that it raises LinAlgError when its abscissa is all zero (the scaled    *)
(* Vandermonde matrix then holds 0/0).                                     *)
(***************************************************************************)
EXTENDS Integers, Sequences, FiniteSets, TLC

VARIABLES
    pc,        \* position in analyze() / analyze_strip_image()
    upload,    \* the uploaded file: [kind, h, w]
    img,       \* img_bgr.shape[:2] as [h, w]
    ci,        \* number of contours of cnts the loop has visited
    detected,  \* blobs as appended by the contour loop
    blobs,     \* blobs after the sort / median selection
    rgb_data,  \* per-well colour statistics
    rgb_mean,  \* the RGB-mean channel array
    fits,      \* r_fit, g_fit, b_fit, rgb_fit
    report,    \* the dict analyze_strip_image returns
    err,       \* message of the exception raised / error returned
    status     \* HTTP status of the JSONResponse

vars == <<pc, upload, img, ci, detected, blobs, rgb_data, rgb_mean, fits,
          report, err, status>>

(***************************************************************************)
(* Program constants                                                       *)
(***************************************************************************)
EXPECTED_COLS == 11
CONCENTRATIONS == <<5, 10, 20, 30, 40, 50, 60, 70, 80, 90, 100>>
SAT_THRESH == 35
VAL_THRESH == 40
MIN_BLOB_AREA == 60
MIN_CONTOUR_AREA == 5
MIN_CIRC_NUM == 3        \* circ >= 0.3, as numerator over MIN_CIRC_DEN
MIN_CIRC_DEN == 10
MAX_DIM == 800
SHRINK_NUM == 72         \* r * 0.72, as numerator over SHRINK_DEN
SHRINK_DEN == 100
CLIP_LO == 0
CLIP_HI == 100           \* np.clip(pred_conc, 0, 10), in tenths

(***************************************************************************)
(* Bounds of the model                                                     *)
(***************************************************************************)
MaxContours == 14        \* longest contour list findContours returns
MaxNoise == 3            \* most contours of a list that are not pads
NumOracles == 2          \* polyfit outcomes tried per request

(***************************************************************************)
(* Arithmetic helpers                                                      *)
(***************************************************************************)
Max2(a, b) == IF a >= b THEN a ELSE b
Min2(a, b) == IF a <= b THEN a ELSE b
Abs(a) == IF a < 0 THEN -a ELSE a

\* cvRound / saturate_cast<int> of the non-negative rational n/d: to nearest,
\* ties to even.
RoundHalfEven(n, d) ==
    LET q == n \div d
        r2 == 2 * (n % d)
    IN  IF r2 < d THEN q
        ELSE IF r2 > d THEN q + 1
        ELSE IF q % 2 = 0 THEN q ELSE q + 1

RECURSIVE SumSeq(_)
SumSeq(s) == IF s = <<>> THEN 0 ELSE Head(s) + SumSeq(Tail(s))

\* sorted(seq, key=...) as the order of the indices of seq: keys[i] is the key
\* of seq[i].  Index e goes after every index whose key is <=, which keeps equal
\* keys in their original order (Python's sort is stable).
RECURSIVE InsertByKey(_, _, _)
InsertByKey(order, e, keys) ==
    IF order = <<>> THEN <<e>>
    ELSE IF keys[Head(order)] <= keys[e]
         THEN <<Head(order)>> \o InsertByKey(Tail(order), e, keys)
         ELSE <<e>> \o order

RECURSIVE SortedOrder(_, _)
SortedOrder(n, keys) ==
    IF n = 0 THEN <<>>
    ELSE InsertByKey(SortedOrder(n - 1, keys), n, keys)

SortedByKey(s, keys) ==
    LET order == SortedOrder(Len(s), keys)
    IN  [i \in 1..Len(s) |-> s[order[i]]]

(***************************************************************************)
(* The inputs: uploads, image shapes, and the contours findContours finds  *)
(***************************************************************************)
\* (h, w) of the decodable uploads.
ImageShapes ==
    { <<1, 1>>, <<5, 800>>, <<800, 800>>, <<801, 3>>, <<1600, 3>>,
      <<5, 1600>>, <<1600, 7>>, <<3, 3201>>, <<1, 1600>>, <<1601, 1>>,
      <<2, 3201>>, <<1200, 1600>>, <<801, 640>>, <<1600, 1600>>,
      <<1601, 1601>> }

Uploads ==
    { [kind |-> "empty", h |-> 0, w |-> 0],
      [kind |-> "garbage", h |-> 0, w |-> 0] }
    \cup { [kind |-> "image", h |-> sh[1], w |-> sh[2]] : sh \in ImageShapes }

Consumed == [kind |-> "consumed", h |-> 0, w |-> 0]

\* The strip the photographs show: contour i of cnts covers either a pad or a
\* piece of noise.  Pads sit in twelve columns on a row around y = 760, the
\* columns visited out of order; contours 13 and up are off-row artifacts that
\* share a column with an earlier pad.  Centres and radius are floats, held in
\* tenths of a pixel.
PadColumn(i) == (5 * i) % 12
PadX10(i) == 10 * (600 + 16 * PadColumn(i)) + ((3 * i) % 10)
PadY10(i) ==
    IF i <= 12 THEN 10 * (760 + ((3 * i) % 5) - 2) + ((7 * i) % 10)
    ELSE IF i % 2 = 1 THEN 10 * 720 + 5 ELSE 10 * 785 + 2
PadR10(i) == 45 + 10 * (i % 3) + 5 * (i % 2)

\* RGB fill of pad i: red falls from column to column; pad 1 has no green and
\* pads 1 and 2 no blue.
PadColour(i) ==
    [r |-> 250 - 15 * PadColumn(i),
     g |-> IF i = 1 THEN 0 ELSE 10 + 7 * (i % 5),
     b |-> IF i <= 2 THEN 0 ELSE 5 + 6 * (i % 7)]

PadContour(i) ==
    [x10 |-> PadX10(i), y10 |-> PadY10(i), r10 |-> PadR10(i),
     area |-> CASE i % 3 = 0 -> 60 [] i % 3 = 1 -> 75 [] OTHER -> 110,
     peri |-> CASE i % 3 = 0 -> 28 [] i % 3 = 1 -> 31 [] OTHER -> 38]

\* Noise at the place of pad i: a speck, a blob just under the area threshold,
\* or an elongated streak just under the circularity threshold.
NoiseContour(i) ==
    [x10 |-> PadX10(i), y10 |-> PadY10(i),
     r10 |-> CASE i % 3 = 0 -> 12 [] i % 3 = 1 -> 44 [] OTHER -> 120,
     area |-> CASE i % 3 = 0 -> 4 [] i % 3 = 1 -> 59 [] OTHER -> 90,
     peri |-> CASE i % 3 = 0 -> 8 [] i % 3 = 1 -> 28 [] OTHER -> 62]

\* A contour lies inside the image it was traced in.
InsideImage(c, shape) ==
    /\ c.x10 - c.r10 >= 0
    /\ c.y10 - c.r10 >= 0
    /\ c.x10 + c.r10 <= 10 * (shape.w - 1)
    /\ c.y10 + c.r10 <= 10 * (shape.h - 1)

\* cv2.cvtColor(..., COLOR_BGR2HSV) on 8-bit pixels: V = max, S = 255 * (V - min) / V
\* rounded to nearest.
Val(c) == Max2(c.r, Max2(c.g, c.b))
Sat(c) ==
    LET v == Val(c)
        d == v - Min2(c.r, Min2(c.g, c.b))
    IN  IF v = 0 THEN 0 ELSE (2 * 255 * d + v) \div (2 * v)

\* The threshold mask: a pixel is "coloured".
InMask(c) == Sat(c) > SAT_THRESH /\ Val(c) > VAL_THRESH

(***************************************************************************)
(* State after construction: a request has arrived, nothing has run.       *)
(***************************************************************************)
NoShape == [h |-> 0, w |-> 0]
NoFits == [ok |-> FALSE]
NoReport == [ok |-> FALSE]

EmptyFileMsg == "Empty file"
DecodeMsg == "Failed to decode image"
NoPadsMsg == "No valid color pads detected on the strip."
ResizeMsg == "cv2.error: (-215:Assertion failed) !dsize.empty() in function 'resize'"
LinAlgMsg == "SVD did not converge in Linear Least Squares"

Init ==
    /\ pc = "read"
    /\ upload \in Uploads
    /\ img = NoShape
    /\ ci = 0
    /\ detected = <<>>
    /\ blobs = <<>>
    /\ rgb_data = <<>>
    /\ rgb_mean = <<>>
    /\ fits = NoFits
    /\ report = NoReport
    /\ err = ""
    /\ status = 0

(***************************************************************************)
(* analyze(): reading and decoding the upload                              *)
(***************************************************************************)
RejectEmpty ==
    /\ pc = "read"
    /\ upload.kind = "empty"
    /\ pc' = "responded"
    /\ status' = 400
    /\ err' = EmptyFileMsg
    /\ upload' = Consumed
    /\ UNCHANGED <<img, ci, detected, blobs, rgb_data, rgb_mean, fits, report>>

RejectUndecodable ==
    /\ pc = "read"
    /\ upload.kind = "garbage"
    /\ pc' = "responded"
    /\ status' = 400
    /\ err' = DecodeMsg
    /\ upload' = Consumed
    /\ UNCHANGED <<img, ci, detected, blobs, rgb_data, rgb_mean, fits, report>>

Decode ==
    /\ pc = "read"
    /\ upload.kind = "image"
    /\ pc' = "resize"
    /\ img' = [h |-> upload.h, w |-> upload.w]
    /\ upload' = Consumed
    /\ UNCHANGED <<ci, detected, blobs, rgb_data, rgb_mean, fits, report, err,
                   status>>

(***************************************************************************)
(* analyze_strip_image(): resize for consistency                           *)
(***************************************************************************)
\* cv2.resize(img, None, fx=scale, fy=scale): dsize = (cvRound(w * scale),
\* cvRound(h * scale)) with scale = 800.0 / m.
ScaledDim(d, m) == RoundHalfEven(d * MAX_DIM, m)

\* scale < 1.0
NeedsResize(shape) == Max2(shape.h, shape.w) > MAX_DIM

ResizedShape(shape) ==
    LET m == Max2(shape.h, shape.w)
    IN  IF NeedsResize(shape)
        THEN [h |-> ScaledDim(shape.h, m), w |-> ScaledDim(shape.w, m)]
        ELSE shape

\* cv2.resize asserts !dsize.empty()
ResizeFails(shape) ==
    NeedsResize(shape) /\ (ResizedShape(shape).h = 0 \/ ResizedShape(shape).w = 0)

Normalize ==
    /\ pc = "resize"
    /\ IF ResizeFails(img)
       THEN /\ pc' = "raised"
            /\ err' = ResizeMsg
            /\ img' = img
       ELSE /\ pc' = "scan"
            /\ err' = err
            /\ img' = ResizedShape(img)
    /\ UNCHANGED <<upload, ci, detected, blobs, rgb_data, rgb_mean, fits, report,
                   status>>

(***************************************************************************)
(* The contour loop                                                        *)
(***************************************************************************)
\* circ = 4 * pi * area / peri^2, in thousandths (pi as 355/113).
Circ1000(area, peri) == (4 * 355 * area * 1000) \div (113 * peri * peri)

\* circ >= 0.3
CircOk(area, peri) ==
    4 * 355 * area * MIN_CIRC_DEN >= MIN_CIRC_NUM * 113 * peri * peri

\* Lines 88-96: which contours become blobs.
Qualifies(c) ==
    /\ ~(c.area < MIN_CONTOUR_AREA)
    /\ ~(c.peri = 0)
    /\ c.area >= MIN_BLOB_AREA
    /\ CircOk(c.area, c.peri)

\* (int(x), int(y), int(round(r)), float(area), float(circ))
BlobOf(c) ==
    [x |-> c.x10 \div 10, y |-> c.y10 \div 10, r |-> RoundHalfEven(c.r10, 10),
     area |-> c.area, circ |-> Circ1000(c.area, c.peri)]

ScanContour ==
    /\ pc = "scan"
    /\ ci < MaxContours
    /\ \E isPad \in BOOLEAN :
         LET c == IF isPad THEN PadContour(ci + 1) ELSE NoiseContour(ci + 1)
         IN  /\ isPad \/ ci - Len(detected) < MaxNoise
             /\ InsideImage(c, img)
             /\ InMask(PadColour(ci + 1))
             /\ detected' = IF Qualifies(c) THEN Append(detected, BlobOf(c))
                            ELSE detected
    /\ ci' = ci + 1
    /\ UNCHANGED <<pc, upload, img, blobs, rgb_data, rgb_mean, fits, report, err,
                   status>>

(***************************************************************************)
(* Pad selection and ordering                                              *)
(***************************************************************************)
\* 2 * np.median(ys)
Median2(ys) ==
    LET s == SortedByKey(ys, ys)
        n == Len(s)
    IN  IF n % 2 = 1 THEN 2 * s[(n + 1) \div 2]
        ELSE s[n \div 2] + s[(n \div 2) + 1]

SortByX(bs) == SortedByKey(bs, [i \in 1..Len(bs) |-> bs[i].x])

\* 2 * abs(b[1] - median_y)
Deviation2(b, med2) == Abs(2 * b.y - med2)

\* Faulty variant of ClosestToMedian: the list is cut without looking at y.
ClosestToMedian_LeftmostOnly(bs) == SubSeq(bs, 1, EXPECTED_COLS)

ClosestToMedian(bs) ==
    LET med2 == Median2([i \in 1..Len(bs) |-> bs[i].y])
        byDev == SortedByKey(bs, [i \in 1..Len(bs) |-> Deviation2(bs[i], med2)])
    IN  SubSeq(byDev, 1, EXPECTED_COLS)

\* Faulty variant of SelectBlobs: the kept subset is not sorted again.
SelectBlobs_NoResort(bs) ==
    LET sorted == SortByX(bs)
    IN  IF Len(sorted) > EXPECTED_COLS THEN ClosestToMedian(sorted) ELSE sorted

\* Lines 103-108.
SelectBlobs(bs) ==
    LET sorted == SortByX(bs)
    IN  IF Len(sorted) > EXPECTED_COLS
        THEN SortByX(ClosestToMedian(sorted))
        ELSE sorted

\* Faulty variant of NoBlobs: the check is missing.
NoBlobs_Unchecked(bs) == FALSE

\* if not blobs
NoBlobs(bs) == Len(bs) = 0

\* The loop is over: no later step reads its position, which is cleared once
\* blobs are handed on (the error path keeps it: it is the number of contours
\* that were turned down).
SelectPads ==
    /\ pc = "scan"
    /\ IF NoBlobs(detected)
       THEN /\ pc' = "raised"
            /\ err' = NoPadsMsg
            /\ blobs' = blobs
            /\ ci' = ci
       ELSE /\ pc' = "sample"
            /\ err' = err
            /\ blobs' = SelectBlobs(detected)
            /\ ci' = 0
    /\ UNCHANGED <<upload, img, detected, rgb_data, rgb_mean, fits, report,
                   status>>

(***************************************************************************)
(* Colour sampling                                                         *)
(***************************************************************************)
\* rr = max(1, int(r * 0.72))
SampleRadius(r) == Max2(1, (r * SHRINK_NUM) \div SHRINK_DEN)

\* mask_circle: the pixels (X, Y) of the image with dist2 <= rr * rr.  Pixels
\* outside the square of side 2 * rr + 1 around the centre are further away.
MaskPixels(cx, cy, rr, shape) ==
    { p \in (Max2(0, cx - rr) .. Min2(shape.w - 1, cx + rr))
            \X (Max2(0, cy - rr) .. Min2(shape.h - 1, cy + rr)) :
        (p[1] - cx) * (p[1] - cx) + (p[2] - cy) * (p[2] - cy) <= rr * rr }

\* The fill of the pad the photograph shows around (cx, cy).  The sampling
\* radius is smaller than the pad's, so every pixel of the mask has this
\* colour.
ColourAt(cx, cy) ==
    LET i == CHOOSE j \in 1..MaxContours :
                 /\ PadX10(j) \div 10 = cx
                 /\ PadY10(j) \div 10 = cy
    IN  PadColour(i)

\* np.mean of n values adding up to total
MeanOf(total, n) == total \div n

ZeroStats ==
    [r_mean |-> 0, g_mean |-> 0, b_mean |-> 0, s_mean |-> 0,
     r_std |-> 0, g_std |-> 0, b_std |-> 0]

\* Lines 115-140 for one blob.
SampleBlob(b, shape) ==
    LET rr == SampleRadius(b.r)
        n == Cardinality(MaskPixels(b.x, b.y, rr, shape))
        c == ColourAt(b.x, b.y)
    IN  IF n > 0
        THEN [r_mean |-> MeanOf(n * c.r, n), g_mean |-> MeanOf(n * c.g, n),
              b_mean |-> MeanOf(n * c.b, n), s_mean |-> MeanOf(n * Sat(c), n),
              r_std |-> 0, g_std |-> 0, b_std |-> 0]
        ELSE ZeroStats

\* Faulty variant of PadOrTruncate: the placeholders are put in front.
PadOrTruncate_PadInFront(data) ==
    IF Len(data) > EXPECTED_COLS THEN SubSeq(data, 1, EXPECTED_COLS)
    ELSE [i \in 1..(EXPECTED_COLS - Len(data)) |->
             [r_mean |-> 0, g_mean |-> 0, b_mean |-> 0, s_mean |-> 0,
              r_std |-> 0, g_std |-> 0, b_std |-> 0]] \o data

\* Faulty variant of PadOrTruncate: the padding branch is missing.
PadOrTruncate_NoPadding(data) ==
    IF Len(data) > EXPECTED_COLS THEN SubSeq(data, 1, EXPECTED_COLS) ELSE data

\* Lines 142-147: truncate or pad to EXPECTED_COLS.
PadOrTruncate(data) ==
    IF Len(data) > EXPECTED_COLS THEN SubSeq(data, 1, EXPECTED_COLS)
    ELSE IF Len(data) < EXPECTED_COLS
         THEN data \o [i \in 1..(EXPECTED_COLS - Len(data)) |-> ZeroStats]
         ELSE data

\* Lines 112-147.
SampleWells(bs, shape) ==
    PadOrTruncate([i \in 1..Len(bs) |-> SampleBlob(bs[i], shape)])

Sample ==
    /\ pc = "sample"
    /\ rgb_data' = SampleWells(blobs, img)
    /\ pc' = "fit"
    /\ UNCHANGED <<upload, img, ci, detected, blobs, rgb_mean, fits, report,
                   err, status>>

(***************************************************************************)
(* Calibration fit                                                         *)
(***************************************************************************)
\* np.array([...], dtype=float), in thirds of a level
RValues(data) == [i \in 1..Len(data) |-> 3 * data[i].r_mean]
GValues(data) == [i \in 1..Len(data) |-> 3 * data[i].g_mean]
BValues(data) == [i \in 1..Len(data) |-> 3 * data[i].b_mean]

\* (r_values + g_values + b_values) / 3.0
RgbMean(data) ==
    [i \in 1..Len(data) |->
        (RValues(data)[i] + GValues(data)[i] + BValues(data)[i]) \div 3]

\* The polynomials polyfit is taken to return, as <<quadratic, linear,
\* constant>>: outcome k of the forward fit (tenths -> thirds of a level) and
\* of the inverse fit (thirds of a level -> tenths).
FwdCoeffs(k) == <<k - 1, -6 * (2 - k), 700 - 400 * (k - 1)>>
InvCoeffs(k) == <<k - 1, -1 - 299 * (k - 1), 700 - 650 * (k - 1)>>

\* np.poly1d(coeffs)(v)
PolyVal(cf, v) == cf[1] * v * v + cf[2] * v + cf[3]

\* Faulty variant of Clip: the upper bound is missing.
Clip_NoUpperBound(v) == IF v < CLIP_LO THEN CLIP_LO ELSE v

\* np.clip(v, 0, 10)
Clip(v) == IF v < CLIP_LO THEN CLIP_LO ELSE IF v > CLIP_HI THEN CLIP_HI ELSE v

\* polyfit scales each Vandermonde column by its norm: an all-zero abscissa
\* gives 0/0 and lstsq raises LinAlgError.
PolyfitRaises(abscissa) == \A i \in 1..Len(abscissa) : abscissa[i] = 0

\* fit_and_evaluate(y_vals, x_vals, channel_name) with polyfit's outcome k.
\* r2 is held as the pair of sums 1 - ss_res / (ss_tot121 / 121), mae as the
\* sum of absolute errors (11 * mae) and rmse as the sum of squared errors
\* (11 * rmse^2).  The 50-point fit_x / fit_y curve is left out.
FitAndEvaluate(y_vals, x_vals, k) ==
    LET n == Len(x_vals)
        coeffs == FwdCoeffs(k)
        inv_coeffs == InvCoeffs(k)
        y_pred == [i \in 1..n |-> PolyVal(coeffs, x_vals[i])]
        total == SumSeq(y_vals)
    IN  [coeffs |-> coeffs,
         inv_coeffs |-> inv_coeffs,
         r2 |-> [ss_res |-> SumSeq([i \in 1..n |->
                               (y_vals[i] - y_pred[i]) * (y_vals[i] - y_pred[i])]),
                 ss_tot121 |-> SumSeq([i \in 1..n |->
                               (n * y_vals[i] - total) * (n * y_vals[i] - total)])],
         mae |-> SumSeq([i \in 1..n |-> Abs(y_vals[i] - y_pred[i])]),
         rmse |-> SumSeq([i \in 1..n |->
                               (y_vals[i] - y_pred[i]) * (y_vals[i] - y_pred[i])]),
         actual_x |-> x_vals,
         actual_y |-> y_vals,
         predicted_concentration |->
             [i \in 1..n |-> Clip(PolyVal(inv_coeffs, y_vals[i]))]]

\* The outcome polyfit has for each of the four calls of a request.
OutcomeFor(k, call) == ((k + call) % NumOracles) + 1

FitChannels ==
    /\ pc = "fit"
    /\ rgb_mean' = RgbMean(rgb_data)
    /\ IF \/ PolyfitRaises(RValues(rgb_data))
          \/ PolyfitRaises(GValues(rgb_data))
          \/ PolyfitRaises(BValues(rgb_data))
          \/ PolyfitRaises(RgbMean(rgb_data))
       THEN /\ pc' = "raised"
            /\ err' = LinAlgMsg
            /\ fits' = fits
       ELSE /\ pc' = "assemble"
            /\ err' = err
            /\ \E k \in 1..NumOracles :
                 fits' = [ok |-> TRUE,
                          r |-> FitAndEvaluate(RValues(rgb_data), CONCENTRATIONS,
                                               OutcomeFor(k, 0)),
                          g |-> FitAndEvaluate(GValues(rgb_data), CONCENTRATIONS,
                                               OutcomeFor(k, 1)),
                          b |-> FitAndEvaluate(BValues(rgb_data), CONCENTRATIONS,
                                               OutcomeFor(k, 2)),
                          rgb |-> FitAndEvaluate(RgbMean(rgb_data), CONCENTRATIONS,
                                                 OutcomeFor(k, 3))]
    /\ UNCHANGED <<upload, img, ci, detected, blobs, rgb_data, report, status>>

(***************************************************************************)
(* Report assembly                                                         *)
(***************************************************************************)
WellRecord(i, data, mean, f) ==
    [well |-> i,
     concentration |-> CONCENTRATIONS[i],
     r |-> data[i].r_mean,
     g |-> data[i].g_mean,
     b |-> data[i].b_mean,
     rgb_mean |-> mean[i],
     s_mean |-> data[i].s_mean,
     pred_from_r |-> f.r.predicted_concentration[i],
     pred_from_g |-> f.g.predicted_concentration[i],
     pred_from_b |-> f.b.predicted_concentration[i],
     pred_from_rgb |-> f.rgb.predicted_concentration[i]]

\* Faulty variant of TrialMetrics: the summary is taken from the RGB-mean channel.
TrialMetrics_FromRgbMean(f) == [r2 |-> f.rgb.r2, mae |-> f.rgb.mae, rmse |-> f.rgb.rmse]

TrialMetrics(f) == [r2 |-> f.r.r2, mae |-> f.r.mae, rmse |-> f.r.rmse]

\* Lines 193-219.
BuildReport(data, mean, f) ==
    [ok |-> TRUE,
     color_values |-> [i \in 1..Len(data) |-> WellRecord(i, data, mean, f)],
     r_channel |-> f.r,
     g_channel |-> f.g,
     b_channel |-> f.b,
     rgb_mean_channel |-> f.rgb,
     trial_metrics |-> TrialMetrics(f)]

Assemble ==
    /\ pc = "assemble"
    /\ report' = BuildReport(rgb_data, rgb_mean, fits)
    /\ pc' = "returned"
    /\ UNCHANGED <<upload, img, ci, detected, blobs, rgb_data, rgb_mean, fits,
                   err, status>>

(***************************************************************************)
(* analyze(): the response                                                 *)
(***************************************************************************)
RespondOk ==
    /\ pc = "returned"
    /\ status' = 200
    /\ pc' = "responded"
    /\ UNCHANGED <<upload, img, ci, detected, blobs, rgb_data, rgb_mean, fits,
                   report, err>>

\* except Exception as e: JSONResponse({"error": str(e)}, status_code=500)
RespondError ==
    /\ pc = "raised"
    /\ status' = 500
    /\ pc' = "responded"
    /\ UNCHANGED <<upload, img, ci, detected, blobs, rgb_data, rgb_mean, fits,
                   report, err>>

Next ==
    \/ RejectEmpty
    \/ RejectUndecodable
    \/ Decode
    \/ Normalize
    \/ ScanContour
    \/ SelectPads
    \/ Sample
    \/ FitChannels
    \/ Assemble
    \/ RespondOk
    \/ RespondError

Spec == Init /\ [][Next]_vars

(***************************************************************************)
(* Properties                                                              *)
(***************************************************************************)
ChannelsOf(rep) ==
    {rep.r_channel, rep.g_channel, rep.b_channel, rep.rgb_mean_channel}

\* C1: whenever analyze_strip_image returns a report (which takes at least one
\* qualifying blob), color_values holds exactly 11 well records and every
\* channel's predicted_concentration and actual_y hold exactly 11 entries,
\* however many blobs were detected; the sampled sequence has 11 records from
\* the padding / truncation step on.
OutputLengthIsExpectedCols ==
    /\ pc \in {"fit", "assemble", "returned"} => Len(rgb_data) = 11
    /\ report.ok =>
         /\ Len(detected) >= 1
         /\ Len(report.color_values) = 11
         /\ \A ch \in ChannelsOf(report) :
              /\ Len(ch.predicted_concentration) = 11
              /\ Len(ch.actual_y) = 11

\* C1 witness: a report returned for a strip on which a single blob was found.
SingleBlobReportReturned ==
    /\ pc = "returned"
    /\ report.ok
    /\ Len(detected) = 1

\* C2: once the pads are selected, the blob sequence is in non-decreasing x,
\* whether it was only sorted (at most 11 blobs) or cut down to the 11 nearest
\* the median row and sorted again; the sampled records follow that order,
\* record i being the sample taken at blob i.
WellsOrderedLeftToRight ==
    /\ \A i, j \in 1..Len(blobs) : i < j => blobs[i].x <= blobs[j].x
    /\ pc \in {"fit", "assemble", "returned"} =>
         \A i \in 1..Len(blobs) :
            /\ rgb_data[i].r_mean = ColourAt(blobs[i].x, blobs[i].y).r
            /\ rgb_data[i].g_mean = ColourAt(blobs[i].x, blobs[i].y).g
            /\ rgb_data[i].b_mean = ColourAt(blobs[i].x, blobs[i].y).b

\* C2 witness: more than 11 blobs were detected out of x order, and the
\* selected ones have been sampled.
CrowdedStripSampled ==
    /\ pc = "fit"
    /\ Len(detected) > EXPECTED_COLS
    /\ \E i \in 1..(Len(detected) - 1) : detected[i].x > detected[i + 1].x

\* Position of a kept blob in the detected list (blobs of one image differ in
\* their centre).
IsKept(d) == \E i \in 1..Len(blobs) : blobs[i] = d

DetectedDeviation2(d) ==
    Abs(2 * d.y - Median2([i \in 1..Len(detected) |-> detected[i].y]))

\* C3: when more than 11 blobs are detected, exactly 11 are kept, all of them
\* detected blobs, and no discarded blob is strictly closer to the median
\* y-centroid of all detected blobs than a kept one.  The kept set is fixed by
\* the list: among equally distant blobs the leftmost are kept, and among
\* those with equal x the ones detected first.
ClosestElevenKept ==
    (Len(detected) > EXPECTED_COLS /\ pc \in {"sample", "fit", "assemble", "returned"}) =>
        /\ Len(blobs) = 11
        /\ \A i, j \in 1..Len(blobs) : i # j => blobs[i] # blobs[j]
        /\ \A i \in 1..Len(blobs) : \E j \in 1..Len(detected) : detected[j] = blobs[i]
        /\ \A k, d \in 1..Len(detected) :
             (IsKept(detected[k]) /\ ~IsKept(detected[d])) =>
                \/ DetectedDeviation2(detected[k]) < DetectedDeviation2(detected[d])
                \/ /\ DetectedDeviation2(detected[k]) = DetectedDeviation2(detected[d])
                   /\ \/ detected[k].x < detected[d].x
                      \/ detected[k].x = detected[d].x /\ k < d

\* C3 witness: an off-row blob was discarded although it lies between kept
\* blobs in x.
OffRowBlobDiscarded ==
    /\ pc = "sample"
    /\ Len(detected) > EXPECTED_COLS
    /\ \E d \in 1..Len(detected) :
         /\ ~IsKept(detected[d])
         /\ \A i \in 1..Len(blobs) :
                DetectedDeviation2(blobs[i]) < DetectedDeviation2(detected[d])
         /\ blobs[1].x < detected[d].x
         /\ detected[d].x < blobs[Len(blobs)].x

InRange(v) == 0 <= v /\ v <= 100

\* C4: every predicted concentration of the fits and of the report (each
\* entry of predicted_concentration of the four channels, each pred_from_r /
\* g / b / rgb of every well record) lies within [0, 10] (0..100 tenths),
\* whatever the inverse polynomial evaluates to, placeholder wells included.
PredictionsWithinRange ==
    /\ fits.ok =>
         \A f \in {fits.r, fits.g, fits.b, fits.rgb} :
            \A i \in 1..Len(f.predicted_concentration) :
               InRange(f.predicted_concentration[i])
    /\ report.ok =>
         /\ \A ch \in ChannelsOf(report) :
               \A i \in 1..Len(ch.predicted_concentration) :
                  InRange(ch.predicted_concentration[i])
         /\ \A i \in 1..Len(report.color_values) :
               /\ InRange(report.color_values[i].pred_from_r)
               /\ InRange(report.color_values[i].pred_from_g)
               /\ InRange(report.color_values[i].pred_from_b)
               /\ InRange(report.color_values[i].pred_from_rgb)

\* C4 witness: a report in which the red channel's inverse polynomial
\* evaluates above 10 at a placeholder well and below 0 at a detected one.
OutOfRangeValuesClamped ==
    /\ pc = "returned"
    /\ report.ok
    /\ Len(blobs) < EXPECTED_COLS
    /\ \E i \in (Len(blobs) + 1)..EXPECTED_COLS, j \in 1..Len(blobs) :
         /\ PolyVal(report.r_channel.inv_coeffs, report.r_channel.actual_y[i]) > 100
         /\ PolyVal(report.r_channel.inv_coeffs, report.r_channel.actual_y[j]) < 0

\* C5: when the contour loop ends with no qualifying blob, the function fails
\* with the "No valid color pads detected" error and nothing downstream has
\* run: no ordering, no sampling, no fit, no report.  Conversely no later
\* stage is ever entered without a blob.
NoPadsAbortsAnalysis ==
    /\ err = NoPadsMsg =>
         /\ pc \in {"raised", "responded"}
         /\ detected = <<>>
         /\ blobs = <<>>
         /\ rgb_data = <<>>
         /\ rgb_mean = <<>>
         /\ ~fits.ok
         /\ ~report.ok
    /\ (pc \in {"sample", "fit", "assemble", "returned"} \/ report.ok) =>
         detected # <<>>
    /\ (pc \in {"raised", "responded"} /\ detected = <<>>) =>
         err \in {NoPadsMsg, EmptyFileMsg, DecodeMsg, ResizeMsg}

\* C5 witness: the error has been raised after contours were visited and all
\* turned down (too small or not round enough).
NoPadsRaisedAfterRejections ==
    /\ pc = "raised"
    /\ err = NoPadsMsg
    /\ ci >= 3

\* C6 (as claimed): the endpoint answers "no pads detected", an empty upload
\* and undecodable bytes with a 4xx status, and keeps 5xx for unexpected
\* internal failures.
ClientErrorsAnswered4xx ==
    pc = "responded" =>
        /\ err \in {NoPadsMsg, EmptyFileMsg, DecodeMsg} => status \in 400..499
        /\ status \in 500..599 => err \notin {NoPadsMsg, EmptyFileMsg, DecodeMsg}

\* What the endpoint does instead: only the two checks made before the core
\* is called answer 400; every exception of the core, "no pads" included, is
\* answered 500.
EndpointStatuses ==
    pc = "responded" =>
        /\ err \in {EmptyFileMsg, DecodeMsg} <=> status = 400
        /\ err \in {NoPadsMsg, ResizeMsg, LinAlgMsg} <=> status = 500
        /\ err = "" <=> (status = 200 /\ report.ok)

\* The sampling mask of a selected blob always holds its centre pixel: the
\* zero-pixel branch of the sampler (C7) is never taken.
MaskNeverEmpty ==
    \A i \in 1..Len(blobs) :
        MaskPixels(blobs[i].x, blobs[i].y, SampleRadius(blobs[i].r), img) # {}

\* The step C8 describes, from the decoded shape img to the working shape
\* img'.
NormalizerStep ==
    LET m == Max2(img.h, img.w)
    IN  /\ pc' = "scan"
        /\ IF m <= 800 THEN img' = img
           ELSE /\ Max2(img'.h, img'.w) <= 800
                /\ img'.h >= 1 /\ img'.w >= 1
                /\ img'.h <= img.h /\ img'.w <= img.w
                /\ 2 * Abs(img'.h * m - img.h * 800) <= m
                /\ 2 * Abs(img'.w * m - img.w * 800) <= m

\* C8 (as claimed): for every decoded image the normalizer hands on a working
\* image: the same shape when max(h, w) <= 800, otherwise both dimensions
\* scaled by 800 / max(h, w) to the nearest pixel, the larger one at most 800,
\* neither one enlarged.
NormalizerScalesEveryImage == [][pc = "resize" => NormalizerStep]_vars

\* What the normalizer does instead: the claim's step, unless a dimension
\* scales to less than half a pixel, where cv2.resize raises.
NormalizerScalesUnlessEmpty ==
    [][pc = "resize" =>
          IF NeedsResize(img) /\ (2 * img.h * 800 <= Max2(img.h, img.w)
                                  \/ 2 * img.w * 800 <= Max2(img.h, img.w))
          THEN pc' = "raised" /\ err' = ResizeMsg
          ELSE NormalizerStep]_vars

\* C9: the report is an index-aligned reshaping.  For every i in 1..11, well
\* record i has well = i, the i-th reference concentration of [0.5, 1, 2, ...,
\* 10] (in tenths), the r / g / b / s means of sampled record i, rgb_mean the
\* average of the three means (r + g + b in thirds), and pred_from_r / g / b /
\* rgb equal to entry i of the red / green / blue / RGB-mean channel's
\* predicted_concentration, each channel having been fitted on its own
\* values; trial_metrics are the red channel's r2, mae and rmse.
ReportIndexAligned ==
    report.ok =>
        /\ \A i \in 1..11 :
             LET cv == report.color_values[i]
             IN  /\ cv.well = i
                 /\ cv.concentration = <<5, 10, 20, 30, 40, 50, 60, 70, 80, 90, 100>>[i]
                 /\ cv.r = rgb_data[i].r_mean
                 /\ cv.g = rgb_data[i].g_mean
                 /\ cv.b = rgb_data[i].b_mean
                 /\ cv.s_mean = rgb_data[i].s_mean
                 /\ cv.rgb_mean = cv.r + cv.g + cv.b
                 /\ cv.pred_from_r = report.r_channel.predicted_concentration[i]
                 /\ cv.pred_from_g = report.g_channel.predicted_concentration[i]
                 /\ cv.pred_from_b = report.b_channel.predicted_concentration[i]
                 /\ cv.pred_from_rgb = report.rgb_mean_channel.predicted_concentration[i]
                 /\ report.r_channel.actual_y[i] = 3 * cv.r
                 /\ report.g_channel.actual_y[i] = 3 * cv.g
                 /\ report.b_channel.actual_y[i] = 3 * cv.b
                 /\ report.rgb_mean_channel.actual_y[i] = cv.rgb_mean
        /\ report.trial_metrics.r2 = report.r_channel.r2
        /\ report.trial_metrics.mae = report.r_channel.mae
        /\ report.trial_metrics.rmse = report.r_channel.rmse

\* C9 witness: a report whose four channels predict differently at some well
\* and whose red metrics differ from every other channel's.
ChannelsDifferInReport ==
    /\ pc = "returned"
    /\ report.ok
    /\ \E i \in 1..11 :
         Cardinality({report.color_values[i].pred_from_r,
                      report.color_values[i].pred_from_g,
                      report.color_values[i].pred_from_b,
                      report.color_values[i].pred_from_rgb}) >= 3
    /\ \A ch \in {report.g_channel, report.b_channel, report.rgb_mean_channel} :
         /\ ch.r2 # report.r_channel.r2
         /\ ch.mae # report.r_channel.mae

\* C10: with k < 11 selected blobs, records 1..k are the samples of the k
\* blobs from left to right and records k+1..11 are all-zero placeholders,
\* appended after the last detected blob; the j-th leftmost blob is paired
\* with the j-th reference concentration, and the placeholders are calibration
\* points of every channel fit.
PlaceholdersFollowDetected ==
    (pc \in {"fit", "assemble", "returned"} /\ Len(blobs) < 11) =>
        LET k == Len(blobs)
        IN  /\ k >= 1
            /\ \A j \in 1..k :
                 /\ j < k => blobs[j].x <= blobs[j + 1].x
                 /\ rgb_data[j].r_mean = ColourAt(blobs[j].x, blobs[j].y).r
                 /\ rgb_data[j].g_mean = ColourAt(blobs[j].x, blobs[j].y).g
                 /\ rgb_data[j].b_mean = ColourAt(blobs[j].x, blobs[j].y).b
                 /\ rgb_data[j].s_mean = Sat(ColourAt(blobs[j].x, blobs[j].y))
            /\ \A j \in (k + 1)..11 :
                 /\ rgb_data[j].r_mean = 0 /\ rgb_data[j].g_mean = 0
                 /\ rgb_data[j].b_mean = 0 /\ rgb_data[j].s_mean = 0
                 /\ rgb_data[j].r_std = 0 /\ rgb_data[j].g_std = 0
                 /\ rgb_data[j].b_std = 0
            /\ fits.ok =>
                 /\ \A f \in {fits.r, fits.g, fits.b, fits.rgb} :
                      /\ f.actual_x = <<5, 10, 20, 30, 40, 50, 60, 70, 80, 90, 100>>
                      /\ Len(f.actual_y) = 11
                      /\ \A j \in (k + 1)..11 : f.actual_y[j] = 0
                 /\ \A j \in 1..k :
                      fits.r.actual_y[j] = 3 * ColourAt(blobs[j].x, blobs[j].y).r
            /\ report.ok =>
                 \A j \in 1..k :
                    /\ report.color_values[j].r = ColourAt(blobs[j].x, blobs[j].y).r
                    /\ report.color_values[j].concentration =
                          <<5, 10, 20, 30, 40, 50, 60, 70, 80, 90, 100>>[j]

\* C10 witness: a report for a strip with a pad missing between two detected
\* ones (a gap of at least two columns): the pads right of the gap moved up.
GapClosedInReport ==
    /\ pc = "returned"
    /\ report.ok
    /\ Len(blobs) < 11
    /\ \E j \in 1..(Len(blobs) - 1) : blobs[j + 1].x - blobs[j].x >= 32

=============================================================================
